---- MODULE Spec2Model ----
(***************************************************************************)
(* A model of game_guide_bot.py: the Discord message router (on_message,   *)
(* send_llm_msg), the startup handler (on_ready) and the site ingestor     *)
(* (read_site), as coroutines of one cooperative event loop.  Every        *)
(* action is the code between two suspension points (await) of a           *)
(* coroutine.                                                              *)
(*                                                                         *)
(* Python str values that are searched or sliced at a pattern (message     *)
(* content, URLs) are sequences of one-character strings.  Texts that are  *)
(* only measured and cut at a length (LLM responses, Discord message       *)
(* bodies) are run-length encoded: a sequence of runs [c, n], n >= 1,      *)
(* adjacent runs of different characters, so that a 2000-character text    *)
(* is a small value.                                                       *)
(***************************************************************************)
EXTENDS Integers, Sequences, FiniteSets, TLC

(***************************************************************************)
(* Bounds of the model.                                                    *)
(***************************************************************************)
\* message events delivered to on_message in one run
MaxEvents == 2
\* pieces a generated message content is made of (OneMessageSpec)
MaxParts == 3
\* the numeric id Discord gave the bot user (client.user.id)
BotId == 42
\* times the client connects and on_ready fires in one run
MaxReady == 1
\* read_site calls awaited by a caller in one run
MaxSiteCalls == 2

(***************************************************************************)
(* Program constants.                                                      *)
(***************************************************************************)
\* response[:2000]
DISCORD_CAP == 2000
\* llm.params.max_tokens = 512
MAX_TOKENS == 512
\* collection.search(query='ff14', limit=999)
SEARCH_LIMIT == 999

(***************************************************************************)
(* Python str, as a sequence of characters.                                *)
(***************************************************************************)
Digit(d) == <<"0", "1", "2", "3", "4", "5", "6", "7", "8", "9">>[d + 1]

RECURSIVE Str(_)
\* str(n) of a non-negative int: its decimal digits
Str(n) == IF n < 10 THEN <<Digit(n)>> ELSE Str(n \div 10) \o <<Digit(n % 10)>>

\* s[i:i+len(sub)] == sub, i counted from 1
MatchAt(s, sub, i) ==
    /\ i + Len(sub) - 1 <= Len(s)
    /\ SubSeq(s, i, i + Len(sub) - 1) = sub

\* sub in s
Contains(s, sub) == \E i \in 1..(Len(s) + 1) : MatchAt(s, sub, i)

\* s.find(sub) + 1: the first position sub occurs at, 0 when it does not
Find(s, sub) ==
    IF Contains(s, sub)
    THEN CHOOSE i \in 1..(Len(s) + 1) :
            /\ MatchAt(s, sub, i)
            /\ \A j \in 1..(i - 1) : ~MatchAt(s, sub, j)
    ELSE 0

\* s.partition(sep): (head, sep, tail) around the first sep, (s, '', '') without
Partition(s, sep) ==
    LET i == Find(s, sep)
    IN  IF i = 0
        THEN <<s, <<>>, <<>>>>
        ELSE <<SubSeq(s, 1, i - 1), sep, SubSeq(s, i + Len(sep), Len(s))>>

\* s.startswith(prefix)
StartsWith(s, prefix) == MatchAt(s, prefix, 1)

(***************************************************************************)
(* Run-length encoded text.                                                *)
(***************************************************************************)
RECURSIVE TLen(_)
\* len(t)
TLen(t) == IF t = <<>> THEN 0 ELSE Head(t).n + TLen(Tail(t))

RECURSIVE Take(_, _)
\* t[:k]
Take(t, k) ==
    IF t = <<>> \/ k <= 0 THEN <<>>
    ELSE IF Head(t).n <= k
         THEN <<Head(t)>> \o Take(Tail(t), k - Head(t).n)
         ELSE <<[c |-> Head(t).c, n |-> k]>>

\* c * n
Rep(c, n) == IF n = 0 THEN <<>> ELSE <<[c |-> c, n |-> n]>>

RECURSIVE ToText(_)
\* the text of a sequence of characters
ToText(s) ==
    IF s = <<>> THEN <<>>
    ELSE LET rest == ToText(Tail(s))
         IN  IF rest # <<>> /\ Head(rest).c = Head(s)
             THEN <<[c |-> Head(s), n |-> Head(rest).n + 1]>> \o Tail(rest)
             ELSE <<[c |-> Head(s), n |-> 1]>> \o rest

(***************************************************************************)
(* The bot user and the inputs of the message router.                      *)
(***************************************************************************)
\* str(client.user.id)
BotIdStr == Str(BotId)

\* f'<@{client.user.id}>'
mention_str == <<"<", "@">> \o BotIdStr \o <<">">>

\* '<a:oori_throbber:1119445227732742265>'
THROBBER ==
    ToText(<<"<", "a", ":", "o", "o", "r", "i", "_", "t", "h", "r", "o", "b", "b",
             "e", "r", ":", "1", "1", "1", "9", "4", "4", "5", "2", "2", "7", "7",
             "3", "2", "7", "4", "2", "2", "6", "5", ">">>)

Hi == <<"h", "i">>
Space == <<" ">>

\* message contents of the concurrent runs: a mention followed by a text, the
\* nickname form of the mention (the id without the exact token), a text
\* without the id, and a text with a different id
Contents ==
    { mention_str \o Space \o Hi,
      <<"<", "@", "!">> \o BotIdStr \o <<">">> \o Space \o <<"y", "o">>,
      Hi,
      <<"<", "@">> \o Str(BotId + 1) \o <<">">> \o Space \o Hi }

\* the pieces of a generated content: the mention token, the bare id, a
\* space and a word
Pieces == {mention_str, BotIdStr, Space, Hi}

RECURSIVE Concats(_)
\* the concatenations of at most n pieces
Concats(n) ==
    IF n = 0 THEN {<<>>}
    ELSE LET shorter == Concats(n - 1)
         IN  shorter \cup {p \o s : p \in Pieces, s \in shorter}

\* message contents of the runs of one message
GenContents == Concats(MaxParts)

\* message events: the author, whether client.user.mentioned_in(message)
\* (a user mention, or @everyone / @here), and the content
Events(contents) ==
    [author : {"bot", "user"}, mentioned : BOOLEAN, content : contents]

\* texts the completion endpoint generates: empty, short, exactly at the cap,
\* one character over it, and over it in the middle of a run
Responses ==
    { <<>>,
      ToText(Hi),
      Rep("a", DISCORD_CAP),
      Rep("a", DISCORD_CAP) \o Rep("b", 1),
      Rep("a", DISCORD_CAP - 500) \o Rep("b", 501) }

\* what the completion task ends with: an exception (endpoint unreachable),
\* or a payload with its list of choices (none: malformed)
Payloads ==
    {[raised |-> TRUE, choices |-> <<>>]}
    \cup {[raised |-> FALSE, choices |-> <<>>]}
    \cup {[raised |-> FALSE, choices |-> <<r>>] : r \in Responses}
    \cup {[raised |-> FALSE, choices |-> <<r, ToText(Hi)>>] : r \in {Rep("a", DISCORD_CAP)}}

(***************************************************************************)
(* The inputs of the site ingestor.                                        *)
(***************************************************************************)
\* DOC_EMBEDDINGS_LLM
DOC_EMBEDDINGS_LLM == "all-MiniLM-L12-v2"

\* WEBSITE
WEBSITE ==
    <<"h", "t", "t", "p", "s", ":", "/", "/", "f", "f", "x", "i", "v",
      ".", "c", "o", "n", "s", "o", "l", "e", "g", "a", "m", "e", "s",
      "w", "i", "k", "i", ".", "c", "o", "m", "/", "w", "i", "k", "i",
      "/", "A", "n", "a", "b", "a", "s", "e", "i", "o", "s", ":", "_",
      "T", "h", "e", "_", "T", "w", "e", "l", "f", "t", "h", "_", "C",
      "i", "r", "c", "l", "e", "_", "(", "S", "a", "v", "a", "g", "e",
      ")">>

HTTP == <<"h", "t", "t", "p">>
HTTPS_SCHEME == <<"h", "t", "t", "p", "s", ":", "/", "/">>

\* URLs a caller passes to read_site: without a scheme, with either scheme,
\* and a host that starts with http
Urls ==
    { <<"e", "x", "a", "m", "p", "l", "e", ".", "t", "e", "s", "t", "/", "p", "a", "g", "e">>,
      <<"h", "t", "t", "p", ":", "/", "/", "a", ".", "b">>,
      <<"h", "t", "t", "p", "s", ":", "/", "/", "a", ".", "b">>,
      <<"h", "t", "t", "p", "x", ".", "i", "o">> }

\* what text_splitter(html2text(html), 200, 20, '\n') makes of a page: the
\* chunk list of a page without text, of a short page and of a longer one
ChunkLists == {<<>>, <<"chunk A">>, <<"chunk A", "chunk B">>}

\* what client.get(url) and the decoding of its body end with
FetchResults ==
    {[status |-> "network error", chunks |-> <<>>],
     [status |-> "decode error", chunks |-> <<>>]}
    \cup {[status |-> "ok", chunks |-> cl] : cl \in ChunkLists}

(***************************************************************************)
(* State.                                                                  *)
(***************************************************************************)
VARIABLES
    handlers,       \* the on_message coroutines that passed the guard, in order of dispatch
    delivered,      \* message events dispatched so far: [ignorable, other]
    channel,        \* the bot's messages in the channel: [id, content]
    llmCalls,       \* completion requests issued: [by, prompt, params, n]
    edits,          \* Message.edit calls issued: [by, target, content, n]
    embedding_model, \* the module-level embedding model handle
    llm,            \* the module-level LLM client: its params
    readyLog,       \* what each run of on_ready printed: [hits, count]
    siteCalls,      \* the read_site coroutines created, in order of creation
    collections,    \* the vector collections created: each a sequence of points
    updates         \* collection.update calls made: [by, texts, metas, n]

routerVars == <<handlers, delivered, channel, llmCalls, edits>>
siteVars == <<readyLog, siteCalls, collections, updates>>
globalVars == <<embedding_model, llm>>
vars == <<handlers, delivered, channel, llmCalls, edits, embedding_model, llm,
          readyLog, siteCalls, collections, updates>>

\* the ids of the handlers dispatched so far
Handlers == 1..Len(handlers)

\* return_msg before the send has returned a message
NoMessage == <<0, 0>>

\* the messages in the channel that handler h's sends created
SentBy(h) == {m \in channel : m.id[1] = h}

\* the id Discord gives the next message handler h sends: a fresh one
NewMessageId(h) == <<h, Cardinality(SentBy(h)) + 1>>

(***************************************************************************)
(* on_message, lines 106-130, and send_llm_msg, lines 76-102.              *)
(***************************************************************************)
\* the guard without its check of the author
Ignored_NoAuthorCheck(ev) ==
    \/ ~ev.mentioned
    \/ ~Contains(ev.content, BotIdStr)

\* lines 110-113: the bot's own message, no mention, or the id not in the content
Ignored(ev) ==
    \/ ev.author = "bot"
    \/ ~ev.mentioned
    \/ ~Contains(ev.content, BotIdStr)

RECURSIVE clean_msg_AllRemoved(_)
\* the cleaning that removes every mention token, as str.replace does
clean_msg_AllRemoved(content) ==
    LET parts == Partition(content, mention_str)
    IN  IF parts[2] = <<>> THEN content
        ELSE parts[1] \o clean_msg_AllRemoved(parts[3])

\* the cleaning that also drops the white space around what is left
clean_msg_Stripped(content) ==
    LET parts == Partition(content, mention_str)
        text == parts[1] \o parts[3]
    IN  IF text # <<>> /\ Head(text) = " " THEN Tail(text) ELSE text

\* lines 124-126: the content around the first mention token
clean_msg(content) ==
    LET parts == Partition(content, mention_str)
    IN  parts[1] \o parts[3]

\* line 80: context_build(msg, delimiters=ALPACA_DELIMITERS)
context_build(msg) == [delimiters |-> "ALPACA", instruction |-> msg]

\* line 99: oapi_choice1_text(response), the text of the first choice
oapi_choice1_text(payload) == payload.choices[1]

\* the edit without the cut
EditContent_Uncut(response) == response

\* line 130: response[:2000]
EditContent(response) == Take(response, DISCORD_CAP)

\* return_msg as a module-level name: the placeholder sent last
EditTarget_Shared(h) ==
    LET last == CHOOSE g \in Handlers :
                    /\ handlers[g].return_msg # NoMessage
                    /\ \A k \in Handlers :
                          handlers[k].return_msg # NoMessage => k <= g
    IN  handlers[last].return_msg

\* line 130: return_msg, the handler's own local
EditTarget(h) == handlers[h].return_msg

\* the event the claims sort as never to be handled: authored by the bot, or
\* without a mention of it, or without its id in the content
IgnorableEvent(ev) ==
    \/ ev.author = "bot"
    \/ ev.mentioned = FALSE
    \/ \A i \in 1..Len(ev.content) :
          i + Len(BotIdStr) - 1 > Len(ev.content)
          \/ SubSeq(ev.content, i, i + Len(BotIdStr) - 1) # BotIdStr

\* the number of requests, or of edits, a handler has issued
IssuedBy(log, h) == Cardinality({e \in log : e.by = h})

\* lines 106-120: the guard, and for a mention the send of the placeholder
on_message(ev) ==
    /\ delivered.ignorable + delivered.other < MaxEvents
    /\ delivered' = IF IgnorableEvent(ev)
                    THEN [delivered EXCEPT !.ignorable = @ + 1]
                    ELSE [delivered EXCEPT !.other = @ + 1]
    /\ handlers' = IF Ignored(ev)
                   THEN handlers
                   ELSE Append(handlers,
                               [pc |-> "send", content |-> ev.content,
                                return_msg |-> NoMessage, clean_msg |-> <<>>,
                                hung |-> FALSE, result |-> <<>>,
                                response |-> <<>>,
                                error |-> "none", trace |-> <<>>])
    /\ UNCHANGED <<channel, llmCalls, edits, globalVars, siteVars>>

\* the completion task created before the send of the placeholder is awaited
on_message_sent_RequestFirst(h, hung) ==
    /\ handlers[h].pc = "send"
    /\ LET clean == clean_msg(handlers[h].content)
           msg == NewMessageId(h)
       IN  /\ channel' = channel \cup {[id |-> msg, content |-> THROBBER]}
           /\ handlers' = [handlers EXCEPT
                  ![h].pc = "llm",
                  ![h].return_msg = msg,
                  ![h].clean_msg = clean,
                  ![h].hung = hung,
                  ![h].trace = @ \o <<"request", "placeholder">>]
           /\ llmCalls' = llmCalls \cup
                  {[by |-> h, prompt |-> context_build(clean),
                    params |-> llm.params,
                    n |-> IssuedBy(llmCalls, h) + 1]}
    /\ UNCHANGED <<delivered, edits, globalVars, siteVars>>

\* line 115 followed by a load of the embedding model when a message is handled
on_message_sent_LoadsModel(h, hung) ==
    /\ handlers[h].pc = "send"
    /\ LET clean == clean_msg(handlers[h].content)
           msg == NewMessageId(h)
       IN  /\ channel' = channel \cup {[id |-> msg, content |-> THROBBER]}
           /\ handlers' = [handlers EXCEPT
                  ![h].pc = "llm",
                  ![h].return_msg = msg,
                  ![h].clean_msg = clean,
                  ![h].hung = hung,
                  ![h].trace = @ \o <<"placeholder", "request">>]
           /\ llmCalls' = llmCalls \cup
                  {[by |-> h, prompt |-> context_build(clean),
                    params |-> llm.params,
                    n |-> IssuedBy(llmCalls, h) + 1]}
    /\ embedding_model' = DOC_EMBEDDINGS_LLM
    /\ UNCHANGED <<delivered, edits, llm, siteVars>>

\* lines 120-128 and 80-90: the placeholder is in the channel; the content is
\* cleaned, the prompt built and the completion task created and awaited.
\* The endpoint may never answer the request (hung).
on_message_sent(h, hung) ==
    /\ handlers[h].pc = "send"
    /\ LET clean == clean_msg(handlers[h].content)
           msg == NewMessageId(h)
       IN  /\ channel' = channel \cup {[id |-> msg, content |-> THROBBER]}
           /\ handlers' = [handlers EXCEPT
                  ![h].pc = "llm",
                  ![h].return_msg = msg,
                  ![h].clean_msg = clean,
                  ![h].hung = hung,
                  ![h].trace = @ \o <<"placeholder", "request">>]
           /\ llmCalls' = llmCalls \cup
                  {[by |-> h, prompt |-> context_build(clean),
                    params |-> llm.params,
                    n |-> IssuedBy(llmCalls, h) + 1]}
    /\ UNCHANGED <<delivered, edits, globalVars, siteVars>>

\* line 120: channel.send raises (platform unreachable); the handler ends
on_message_send_failed(h) ==
    /\ handlers[h].pc = "send"
    /\ handlers' = [handlers EXCEPT ![h].pc = "failed", ![h].error = "send"]
    /\ UNCHANGED <<delivered, channel, llmCalls, edits, globalVars, siteVars>>

\* the completion call made in the loop's own thread: while a request is
\* out, the loop serves nothing but the earliest one
send_llm_msg_done_Blocking(h, payload) ==
    /\ handlers[h].pc = "llm"
    /\ ~handlers[h].hung
    /\ \A g \in 1..(h - 1) : handlers[g].pc # "llm"
    /\ ~payload.raised
    /\ payload.choices # <<>>
    /\ LET response == oapi_choice1_text(payload)
       IN  /\ handlers' = [handlers EXCEPT
                  ![h].pc = "edit",
                  ![h].result = <<payload>>,
                  ![h].response = response,
                  ![h].trace = @ \o <<"response", "edit">>]
           /\ edits' = edits \cup
                  {[by |-> h, target |-> EditTarget(h),
                    content |-> EditContent(response),
                    n |-> IssuedBy(edits, h) + 1]}
    /\ UNCHANGED <<delivered, channel, llmCalls, globalVars, siteVars>>

\* the tasks kept in a module-level list, so that the wait returns the task
\* that finished first in the whole process
send_llm_msg_done_SharedTasks(h, payload) ==
    /\ handlers[h].pc = "llm"
    /\ ~handlers[h].hung
    /\ ~payload.raised
    /\ payload.choices # <<>>
    /\ LET finished == {g \in Handlers : handlers[g].response # <<>>}
           first == IF finished = {} THEN payload
                    ELSE handlers[CHOOSE g \in finished :
                                     \A k \in finished : g <= k].result[1]
           response == oapi_choice1_text(first)
       IN  /\ handlers' = [handlers EXCEPT
                  ![h].pc = "edit",
                  ![h].result = <<payload>>,
                  ![h].response = response,
                  ![h].trace = @ \o <<"response", "edit">>]
           /\ edits' = edits \cup
                  {[by |-> h, target |-> EditTarget(h),
                    content |-> EditContent(response),
                    n |-> IssuedBy(edits, h) + 1]}
    /\ UNCHANGED <<delivered, channel, llmCalls, globalVars, siteVars>>

\* the text taken from the last choice of the payload, not the first
send_llm_msg_done_LastChoice(h, payload) ==
    /\ handlers[h].pc = "llm"
    /\ ~handlers[h].hung
    /\ ~payload.raised
    /\ payload.choices # <<>>
    /\ LET response == payload.choices[Len(payload.choices)]
       IN  /\ handlers' = [handlers EXCEPT
                  ![h].pc = "edit",
                  ![h].result = <<payload>>,
                  ![h].response = response,
                  ![h].trace = @ \o <<"response", "edit">>]
           /\ edits' = edits \cup
                  {[by |-> h, target |-> EditTarget(h),
                    content |-> EditContent(response),
                    n |-> IssuedBy(edits, h) + 1]}
    /\ UNCHANGED <<delivered, channel, llmCalls, globalVars, siteVars>>

\* the failure of the completion call caught and shown in the channel
send_llm_msg_done_ErrorReply(h, payload) ==
    /\ handlers[h].pc = "llm"
    /\ ~handlers[h].hung
    /\ LET failed == payload.raised \/ payload.choices = <<>>
           response == IF failed THEN ToText(<<"e", "r", "r", "o", "r">>)
                       ELSE oapi_choice1_text(payload)
       IN  /\ handlers' = [handlers EXCEPT
                  ![h].pc = "edit",
                  ![h].result = <<payload>>,
                  ![h].error = IF payload.raised THEN "unreachable"
                               ELSE IF failed THEN "malformed" ELSE "none",
                  ![h].response = response,
                  ![h].trace = @ \o <<"response", "edit">>]
           /\ edits' = edits \cup
                  {[by |-> h, target |-> EditTarget(h),
                    content |-> EditContent(response),
                    n |-> IssuedBy(edits, h) + 1]}
    /\ UNCHANGED <<delivered, channel, llmCalls, globalVars, siteVars>>

\* lines 88-102 and 128-130: the one task of the wait is done; its result is
\* taken (or its exception raised), the first choice's text extracted, and
\* the edit of the placeholder issued
send_llm_msg_done(h, payload) ==
    /\ handlers[h].pc = "llm"
    /\ ~handlers[h].hung
    /\ IF payload.raised
       THEN /\ handlers' = [handlers EXCEPT ![h].pc = "failed",
                                            ![h].result = <<payload>>,
                                            ![h].error = "unreachable"]
            /\ UNCHANGED edits
       ELSE IF payload.choices = <<>>
       THEN /\ handlers' = [handlers EXCEPT ![h].pc = "failed",
                                            ![h].result = <<payload>>,
                                            ![h].error = "malformed"]
            /\ UNCHANGED edits
       ELSE LET response == oapi_choice1_text(payload)
            IN  /\ handlers' = [handlers EXCEPT
                       ![h].pc = "edit",
                       ![h].result = <<payload>>,
                       ![h].response = response,
                       ![h].trace = @ \o <<"response", "edit">>]
                /\ edits' = edits \cup
                       {[by |-> h, target |-> EditTarget(h),
                         content |-> EditContent(response),
                         n |-> IssuedBy(edits, h) + 1]}
    /\ UNCHANGED <<delivered, channel, llmCalls, globalVars, siteVars>>

\* line 130: the edit is applied to its target and the handler returns
on_message_edited(h) ==
    /\ handlers[h].pc = "edit"
    /\ LET e == CHOOSE e \in edits : e.by = h /\ e.n = IssuedBy(edits, h)
       IN  channel' = {IF m.id = e.target THEN [m EXCEPT !.content = e.content] ELSE m :
                          m \in channel}
    /\ handlers' = [handlers EXCEPT ![h].pc = "done"]
    /\ UNCHANGED <<delivered, llmCalls, edits, globalVars, siteVars>>

\* line 130: return_msg.edit raises (platform unreachable); the handler ends
on_message_edit_failed(h) ==
    /\ handlers[h].pc = "edit"
    /\ handlers' = [handlers EXCEPT ![h].pc = "failed", ![h].error = "edit"]
    /\ UNCHANGED <<delivered, channel, llmCalls, edits, globalVars, siteVars>>

(***************************************************************************)
(* The vector collection (ogbujipt.embedding_helper.qdrant_collection),    *)
(* in memory: the points it holds, in the order they were stored.          *)
(***************************************************************************)
\* qdrant_collection(name, embedding_model): a new, empty collection
qdrant_collection == <<>>

\* collection.count()
Count(coll) == Len(coll)

\* collection.update(texts, metas) that stored the first k texts: every text
\* with its metadata, after the points the collection holds.  k < len(texts)
\* when the call raised in the middle of its loop.
Update(coll, texts, metas, k) ==
    coll \o [i \in 1..k |-> [text |-> texts[i], meta |-> metas[i]]]

\* collection.search(query, limit): at most limit of the points
Search(coll, limit) ==
    SubSeq(coll, 1, IF Len(coll) < limit THEN Len(coll) ELSE limit)

(***************************************************************************)
(* read_site, lines 133-152.                                               *)
(***************************************************************************)
\* the check for the scheme made with 'https'
NormalizeUrl_HttpsOnly(url) ==
    IF ~StartsWith(url, HTTP \o <<"s">>) THEN HTTPS_SCHEME \o url ELSE url

\* line 135: the URL with https:// before it unless it starts with http
NormalizeUrl(url) == IF ~StartsWith(url, HTTP) THEN HTTPS_SCHEME \o url ELSE url

\* line 149: [{'url': url}] * len(chunks)
Metas(url, chunks) == [i \in 1..Len(chunks) |-> [url |-> url]]

\* read_site(url, collection): the coroutine object a call makes.  Its body
\* runs once it is awaited (or scheduled as a task), and not before.
Coroutine(url, coll, awaited) ==
    [pc |-> "created", arg |-> url, url |-> url, coll |-> coll,
     awaited |-> awaited, chunks |-> <<>>, stored |-> 0, error |-> "none"]

\* a caller's await read_site(url, collection) on its collection
await_read_site(url) ==
    /\ Cardinality({c \in 1..Len(siteCalls) : siteCalls[c].awaited}) < MaxSiteCalls
    /\ siteCalls' = Append(siteCalls, Coroutine(url, 1, TRUE))
    /\ UNCHANGED <<routerVars, globalVars, readyLog, collections, updates>>

\* lines 135-138: the URL is normalized and the GET sent
read_site(c) ==
    /\ siteCalls[c].pc = "created"
    /\ siteCalls[c].awaited
    /\ siteCalls' = [siteCalls EXCEPT ![c].pc = "get",
                                      ![c].url = NormalizeUrl(siteCalls[c].arg)]
    /\ UNCHANGED <<routerVars, globalVars, readyLog, collections, updates>>

\* the body decoded with errors='replace' and upserted before the error is raised
read_site_got_UpsertsUndecoded(c, result, k) ==
    /\ siteCalls[c].pc = "get"
    /\ result.status = "decode error"
    /\ k = 0
    /\ LET chunks == <<"undecoded">>
           metas == Metas(siteCalls[c].url, chunks)
           coll == siteCalls[c].coll
       IN  /\ collections' = [collections EXCEPT
                                 ![coll] = Update(@, chunks, metas, Len(chunks))]
           /\ updates' = updates \cup
                  {[by |-> c, texts |-> chunks, metas |-> metas,
                    n |-> IssuedBy(updates, c) + 1]}
           /\ siteCalls' = [siteCalls EXCEPT ![c].pc = "failed",
                                             ![c].error = result.status]
    /\ UNCHANGED <<routerVars, globalVars, readyLog>>

\* the upsert that leaves out the last chunk
read_site_got_DropsLast(c, result, k) ==
    /\ siteCalls[c].pc = "get"
    /\ result.status = "ok"
    /\ LET chunks == result.chunks
           texts == SubSeq(chunks, 1, Len(chunks) - 1)
           metas == Metas(siteCalls[c].url, texts)
           coll == siteCalls[c].coll
       IN  /\ k = Len(chunks)
           /\ collections' = [collections EXCEPT
                                 ![coll] = Update(@, texts, metas, Len(texts))]
           /\ updates' = updates \cup
                  {[by |-> c, texts |-> texts, metas |-> metas,
                    n |-> IssuedBy(updates, c) + 1]}
           /\ siteCalls' = [siteCalls EXCEPT ![c].pc = "done",
                                             ![c].chunks = chunks,
                                             ![c].stored = k]
    /\ UNCHANGED <<routerVars, globalVars, readyLog>>

\* lines 138-152: the GET and the decoding are over; on success the text is
\* chunked and the chunks upserted, of which the collection stored the first k
read_site_got(c, result, k) ==
    /\ siteCalls[c].pc = "get"
    /\ IF result.status # "ok"
       THEN /\ siteCalls' = [siteCalls EXCEPT ![c].pc = "failed",
                                              ![c].error = result.status]
            /\ UNCHANGED <<collections, updates>>
       ELSE LET chunks == result.chunks
                metas == Metas(siteCalls[c].url, chunks)
                coll == siteCalls[c].coll
            IN  /\ k \in 0..Len(chunks)
                /\ collections' = [collections EXCEPT
                                      ![coll] = Update(@, chunks, metas, k)]
                /\ updates' = updates \cup
                       {[by |-> c, texts |-> chunks, metas |-> metas,
                         n |-> IssuedBy(updates, c) + 1]}
                /\ siteCalls' = [siteCalls EXCEPT
                       ![c].pc = IF k = Len(chunks) THEN "done" ELSE "failed",
                       ![c].error = IF k = Len(chunks) THEN "none" ELSE "update",
                       ![c].chunks = chunks,
                       ![c].stored = k]
    /\ UNCHANGED <<routerVars, globalVars, readyLog>>

(***************************************************************************)
(* on_ready, lines 156-169.  It awaits nothing, so it runs as one step.    *)
(***************************************************************************)
on_ready ==
    /\ Len(readyLog) < MaxReady
    /\ embedding_model' = DOC_EMBEDDINGS_LLM
    /\ LET collection == Len(collections) + 1
       IN  /\ collections' = Append(collections, qdrant_collection)
           \* line 166: the call makes a coroutine object nothing awaits
           /\ siteCalls' = Append(siteCalls, Coroutine(WEBSITE, collection, FALSE))
           /\ readyLog' = Append(readyLog,
                  [collection |-> collection,
                   hits |-> Search(collections'[collection], SEARCH_LIMIT),
                   count |-> Count(collections'[collection])])
    /\ UNCHANGED <<routerVars, llm, updates>>

(***************************************************************************)
(* The event loop: any number of handlers in flight, each resumed when     *)
(* what it awaits is done.                                                 *)
(***************************************************************************)
Init ==
    /\ handlers = <<>>
    /\ delivered = [ignorable |-> 0, other |-> 0]
    /\ channel = {}
    /\ llmCalls = {}
    /\ edits = {}
    /\ embedding_model = "None"
    /\ llm = [params |-> [llmtemp |-> "LLM_TEMP", max_tokens |-> MAX_TOKENS]]
    /\ readyLog = <<>>
    /\ siteCalls = <<>>
    /\ collections = <<qdrant_collection>>
    /\ updates = {}

Next ==
    \/ \E ev \in Events(Contents) : on_message(ev)
    \/ \E h \in Handlers, hung \in BOOLEAN : on_message_sent(h, hung)
    \/ \E h \in Handlers : on_message_send_failed(h)
    \/ \E h \in Handlers, payload \in Payloads : send_llm_msg_done(h, payload)
    \/ \E h \in Handlers : on_message_edited(h)
    \/ \E h \in Handlers : on_message_edit_failed(h)
    \/ on_ready

Spec == Init /\ [][Next]_vars

\* what the completion task ends with in the runs that are checked for
\* progress: an exception, a payload without choices, a payload with a text
LivePayloads ==
    {[raised |-> TRUE, choices |-> <<>>],
     [raised |-> FALSE, choices |-> <<>>],
     [raised |-> FALSE, choices |-> <<ToText(Hi)>>]}

\* The router alone, its completion task ending in one of LivePayloads
LiveNext ==
    \/ \E ev \in Events(Contents) : on_message(ev)
    \/ \E h \in Handlers, hung \in BOOLEAN : on_message_sent(h, hung)
    \/ \E h \in Handlers : on_message_send_failed(h)
    \/ \E h \in Handlers, payload \in LivePayloads : send_llm_msg_done(h, payload)
    \/ \E h \in Handlers : on_message_edited(h)
    \/ \E h \in Handlers : on_message_edit_failed(h)

\* what the loop does for handler h once what h awaits is over
HandlerStep(h) ==
    IF h \notin Handlers THEN FALSE
    ELSE \/ \E hung \in BOOLEAN : on_message_sent(h, hung)
         \/ on_message_send_failed(h)
         \/ \E payload \in LivePayloads : send_llm_msg_done(h, payload)
         \/ on_message_edited(h)
         \/ on_message_edit_failed(h)

\* The loop resumes every coroutine whose awaited call is over: the platform
\* answers every send and edit, and the endpoint every request it will ever
\* answer (not the hung ones).
LiveSpec == Init /\ [][LiveNext]_vars /\ \A h \in 1..MaxEvents : WF_vars(HandlerStep(h))

\* The site ingestor under callers that await it, beside on_ready
SiteNext ==
    \/ \E url \in Urls : await_read_site(url)
    \/ \E c \in 1..Len(siteCalls) : read_site(c)
    \/ \E c \in 1..Len(siteCalls), result \in FetchResults :
          \E k \in 0..Len(result.chunks) : read_site_got(c, result, k)
    \/ on_ready

SiteSpec == Init /\ [][SiteNext]_vars

\* The router on one message event, of any generated content
OneNext ==
    \/ \E ev \in Events(GenContents) :
          delivered.ignorable + delivered.other = 0 /\ on_message(ev)
    \/ \E h \in Handlers, hung \in BOOLEAN : on_message_sent(h, hung)
    \/ \E h \in Handlers : on_message_send_failed(h)
    \/ \E h \in Handlers, payload \in Payloads : send_llm_msg_done(h, payload)
    \/ \E h \in Handlers : on_message_edited(h)
    \/ \E h \in Handlers : on_message_edit_failed(h)

OneMessageSpec == Init /\ [][OneNext]_vars

(***************************************************************************)
(* Properties.                                                             *)
(***************************************************************************)
\* the handlers whose completion call returned a text
Returned == {h \in Handlers : "response" \in {handlers[h].trace[i] : i \in DOMAIN handlers[h].trace}}

\* C1: as long as every message event delivered was authored by the bot, or
\* did not mention it, or did not hold its id in the content, no placeholder
\* has been sent, no completion request issued and no edit performed.
C1_IgnoredEventsDoNothing ==
    delivered.other = 0 =>
        /\ Cardinality(channel) = 0
        /\ Cardinality(llmCalls) = 0
        /\ Cardinality(edits) = 0
        /\ handlers = <<>>

\* C1 witness: a sequence of two such events has been delivered
C1_Witness == delivered.ignorable >= 2 /\ delivered.other = 0

\* C2: a handled mention whose completion call returned has sent exactly
\* one placeholder, issued exactly one completion request and exactly one
\* edit, and the edit targets the placeholder of that same event; no handler
\* ever issues a second request or a second edit.
C2_OnePlaceholderOneCallOneEdit ==
    /\ \A h \in Returned :
          /\ Cardinality(SentBy(h)) = 1
          /\ IssuedBy(llmCalls, h) = 1
          /\ IssuedBy(edits, h) = 1
          /\ \A e \in edits : e.by = h => e.target \in {m.id : m \in SentBy(h)}
    /\ \A h \in Handlers :
          /\ IssuedBy(llmCalls, h) <= 1
          /\ IssuedBy(edits, h) <= 1
          /\ Cardinality(SentBy(h)) <= 1

\* C2 witness: two mentions were handled to the end
C2_Witness ==
    /\ Len(handlers) >= 2
    /\ \A h \in Handlers : handlers[h].pc = "done"

\* the text T of a content that is the mention token, a space and T
AfterMention(content) ==
    SubSeq(content, Len(mention_str) + 2, Len(content))

\* the handlers past the send whose content is the mention token, a space
\* and a text
MentionSpaceText ==
    {h \in Handlers :
        /\ handlers[h].trace # <<>>
        /\ Len(handlers[h].content) > Len(mention_str) + 1
        /\ SubSeq(handlers[h].content, 1, Len(mention_str) + 1) = mention_str \o Space}

\* C3 as stated: for a content that is the mention token, a space and a text
\* T, the cleaned message and the prompt's instruction are T.
C3_Original_CleanIsText ==
    \A h \in MentionSpaceText :
        /\ handlers[h].clean_msg = AfterMention(handlers[h].content)
        /\ \A call \in llmCalls :
              call.by = h => call.prompt.instruction = AfterMention(handlers[h].content)

\* C3 as amended: for a content that is the mention token, a space and a
\* text T, the cleaned message and the prompt's instruction are the space
\* followed by T: the token is removed and nothing else.
C3_CleanIsSpaceThenText ==
    \A h \in MentionSpaceText :
        /\ handlers[h].clean_msg = Space \o AfterMention(handlers[h].content)
        /\ \A call \in llmCalls :
              call.by = h =>
                  call.prompt.instruction = Space \o AfterMention(handlers[h].content)

\* C3 witness: the content "<@id> hi" was cleaned and its prompt sent
C3_Witness ==
    \E h \in MentionSpaceText :
        /\ handlers[h].content = mention_str \o Space \o Hi
        /\ \E call \in llmCalls : call.by = h

\* p is t[:k] for some k
IsPrefix(p, t) ==
    \/ p = <<>>
    \/ /\ Len(p) <= Len(t)
       /\ \A i \in 1..(Len(p) - 1) : p[i] = t[i]
       /\ p[Len(p)].c = t[Len(p)].c
       /\ p[Len(p)].n <= t[Len(p)].n

\* C4: the content of every edit is the first 2000 characters of the text
\* the completion returned to its handler: the whole text when that has at
\* most 2000 characters, its prefix of exactly 2000 characters otherwise.
C4_EditIsFirst2000 ==
    \A e \in edits :
        LET response == handlers[e.by].response
        IN  /\ IsPrefix(e.content, response)
            /\ TLen(response) <= 2000 => e.content = response
            /\ TLen(response) > 2000 => TLen(e.content) = 2000
            /\ TLen(e.content) <= 2000

\* C4 witness: the edit of a response longer than 2000 characters, cut in
\* the middle of a run, was applied
C4_Witness ==
    \E e \in edits :
        /\ TLen(handlers[e.by].response) > 2000
        /\ Len(e.content) = 2
        /\ handlers[e.by].pc = "done"
        /\ \E m \in channel : m.id = e.target /\ m.content = e.content


\* the read_site coroutine that the i-th run of on_ready made
ReadyCall(i) ==
    CHOOSE c \in 1..Len(siteCalls) :
        siteCalls[c].coll = readyLog[i].collection /\ ~siteCalls[c].awaited

\* C5: whenever on_ready has run, the document at WEBSITE was ingested
\* before the search and the count: the page was fetched and its chunks
\* upserted, and the count printed is the number of chunks.
C5_ReadyIngestsWebsite ==
    \A i \in 1..Len(readyLog) :
        /\ siteCalls[ReadyCall(i)].arg = WEBSITE
        /\ siteCalls[ReadyCall(i)].pc = "done"
        /\ IssuedBy(updates, ReadyCall(i)) = 1
        /\ readyLog[i].count = Len(siteCalls[ReadyCall(i)].chunks)

\* C6: if a later mention has been dispatched before the completion call of
\* an earlier one returned, the earlier one's response is never used: no
\* step takes the earlier handler from its wait to the edit of its
\* placeholder.
C6_SecondRequestClobbersFirst ==
    [][\A h \in Handlers :
          (handlers[h].pc = "llm" /\ Len(handlers) > h) => handlers'[h].pc # "edit"]_vars

\* the URL read_site is to use for the URL it was given
ExpectedUrl(arg) ==
    IF Len(arg) >= 4 /\ arg[1] = "h" /\ arg[2] = "t" /\ arg[3] = "t" /\ arg[4] = "p"
    THEN arg
    ELSE <<"h", "t", "t", "p", "s", ":", "/", "/">> \o arg

\* C7: read_site uses the URL it was given with https:// before it exactly
\* when that does not start with http; a successful call has made exactly
\* one upsert, of all the chunks, with as many metadata entries as chunks,
\* every one of them {url: the URL used}.
C7_UrlNormalizedAndOnEveryChunk ==
    \A c \in 1..Len(siteCalls) :
        /\ siteCalls[c].pc # "created" =>
              /\ siteCalls[c].url = ExpectedUrl(siteCalls[c].arg)
              /\ siteCalls[c].arg = <<"e", "x", "a", "m", "p", "l", "e", ".", "t", "e", "s", "t", "/", "p", "a", "g", "e">> =>
                    siteCalls[c].url = <<"h", "t", "t", "p", "s", ":", "/", "/", "e", "x", "a", "m", "p", "l", "e", ".", "t", "e", "s", "t", "/", "p", "a", "g", "e">>
        /\ siteCalls[c].pc = "done" =>
              /\ IssuedBy(updates, c) = 1
              /\ \A u \in updates :
                    u.by = c =>
                        /\ u.texts = siteCalls[c].chunks
                        /\ Len(u.metas) = Len(u.texts)
                        /\ \A i \in 1..Len(u.metas) :
                              u.metas[i] = [url |-> ExpectedUrl(siteCalls[c].arg)]

\* C7 witness: read_site("example.test/page") succeeded on a page of two
\* chunks, both stored with the https URL, and another call was given a
\* URL with a scheme
C7_Witness ==
    \E c, d \in 1..Len(siteCalls) :
        /\ siteCalls[c].arg = <<"e", "x", "a", "m", "p", "l", "e", ".", "t", "e", "s", "t", "/", "p", "a", "g", "e">>
        /\ siteCalls[c].pc = "done"
        /\ Len(siteCalls[c].chunks) = 2
        /\ \E p \in 1..Len(collections[1]) :
              collections[1][p].meta.url = <<"h", "t", "t", "p", "s", ":", "/", "/", "e", "x", "a", "m", "p", "l", "e", ".", "t", "e", "s", "t", "/", "p", "a", "g", "e">>
        /\ siteCalls[d].pc = "done"
        /\ siteCalls[d].url = siteCalls[d].arg

RECURSIVE Upserted(_, _)
\* the chunks that the first n read_site calls upserted into collection coll
\* with success: all the chunks of a call that returned, the chunks stored
\* before the failure of a call whose upsert raised, none of any other call
Upserted(coll, n) ==
    IF n = 0 THEN 0
    ELSE Upserted(coll, n - 1) +
         (IF siteCalls[n].coll # coll THEN 0
          ELSE IF siteCalls[n].pc = "done" THEN Len(siteCalls[n].chunks)
          ELSE IF siteCalls[n].error = "update" THEN siteCalls[n].stored
          ELSE 0)

\* C8: after any read_site calls, successful or failed, the count of every
\* collection, empty when created, is the number of chunks upserted into it
\* with success over all the documents ingested.
C8_CountIsChunksUpserted ==
    \A coll \in 1..Len(collections) :
        Count(collections[coll]) = Upserted(coll, Len(siteCalls))

\* C8 witness: two documents were ingested with success and the collection
\* counts the three chunks of both
C8_Witness ==
    /\ \E c, d \in 1..Len(siteCalls) :
          /\ c # d
          /\ siteCalls[c].pc = "done" /\ Len(siteCalls[c].chunks) = 2
          /\ siteCalls[d].pc = "done" /\ Len(siteCalls[d].chunks) = 1
    /\ Count(collections[1]) = 3

\* the place of an event in a handler's trace, 0 when it has not happened
At(h, event) ==
    IF \E i \in DOMAIN handlers[h].trace : handlers[h].trace[i] = event
    THEN CHOOSE i \in DOMAIN handlers[h].trace : handlers[h].trace[i] = event
    ELSE 0

\* C9: in every handler the placeholder is sent before the completion
\* request is issued, and the placeholder is edited only after that request
\* has returned: no request without the placeholder in the channel, no edit
\* without the response.
C9_PlaceholderThenRequestThenEdit ==
    \A h \in Handlers :
        /\ IssuedBy(llmCalls, h) > 0 =>
              /\ 0 < At(h, "placeholder")
              /\ At(h, "placeholder") < At(h, "request")
              /\ SentBy(h) # {}
        /\ IssuedBy(edits, h) > 0 =>
              /\ 0 < At(h, "request")
              /\ At(h, "request") < At(h, "response")
              /\ At(h, "response") < At(h, "edit")
              /\ IssuedBy(llmCalls, h) > 0
        /\ At(h, "request") > 0 <=> IssuedBy(llmCalls, h) > 0
        /\ At(h, "edit") > 0 <=> IssuedBy(edits, h) > 0
        /\ At(h, "placeholder") > 0 <=> SentBy(h) # {}
        /\ (\E m \in SentBy(h) : m.content # THROBBER) => At(h, "edit") > 0

\* C9 witness: a handler went through the placeholder, the request, the
\* response and the edit, while another one's send failed before any request
C9_Witness ==
    \E h, g \in Handlers :
        /\ handlers[h].pc = "done"
        /\ handlers[h].trace = <<"placeholder", "request", "response", "edit">>
        /\ handlers[g].error = "send"
        /\ IssuedBy(llmCalls, g) = 0

\* where handler h is, "none" before its event is dispatched
Pc(h) == IF h \in Handlers THEN handlers[h].pc ELSE "none"

\* whether the endpoint never answers the request of handler h
Hung(h) == IF h \in Handlers THEN handlers[h].hung ELSE FALSE

\* C10: a handler whose completion request the endpoint never answers stays
\* at its wait for ever, its placeholder never edited; the loop is not
\* blocked by it: every handler whose own request is answered goes on to
\* the end of its handling, the edit of its placeholder when the answer
\* holds a text.
C10_HungHandlerBlocksOnlyItself ==
    /\ [](\A h \in Handlers :
            handlers[h].hung =>
                /\ handlers[h].pc = "llm"
                /\ IssuedBy(edits, h) = 0
                /\ \A m \in SentBy(h) : m.content = THROBBER)
    /\ \A h \in 1..MaxEvents :
          /\ (Pc(h) = "llm" /\ ~Hung(h)) ~> (Pc(h) \in {"edit", "done", "failed"})
          /\ (Pc(h) = "edit") ~> (Pc(h) \in {"done", "failed"} /\ IssuedBy(edits, h) = 1)

\* C10 witness: the first mention's request hangs, and a mention delivered
\* after it was handled to its edit
C10_Witness ==
    \E h, g \in Handlers :
        /\ h < g
        /\ handlers[h].hung
        /\ handlers[g].pc = "done"
        /\ \E m \in SentBy(g) : m.content = EditContent(handlers[g].response)

\* the handlers whose completion call failed: the endpoint was unreachable
\* or its payload held no first choice
CompletionFailed ==
    {h \in Handlers : handlers[h].error \in {"unreachable", "malformed"}}

\* C11: a failed completion call ends its handler: the handler is over, it
\* issued its one request and no edit, the one message it sent still shows
\* the throbber, so no error text is in the channel; the handlers of the
\* other events are not touched: each one that is done shows its own
\* response in its own placeholder.
C11_FailedCompletionEndsHandlerSilently ==
    /\ \A h \in CompletionFailed :
          /\ handlers[h].pc = "failed"
          /\ handlers[h].response = <<>>
          /\ IssuedBy(llmCalls, h) = 1
          /\ IssuedBy(edits, h) = 0
          /\ \A e \in edits : e.target # handlers[h].return_msg
          /\ Cardinality(SentBy(h)) = 1
          /\ \A m \in SentBy(h) : m.content = THROBBER
    /\ \A g \in Handlers \ CompletionFailed :
          handlers[g].pc = "done" =>
              \E m \in SentBy(g) : m.content = EditContent(handlers[g].response)

\* C11 witness: the first mention's completion call failed on a malformed
\* payload, and a mention delivered after it was handled to its edit
C11_Witness ==
    \E h, g \in Handlers :
        /\ h < g
        /\ handlers[h].error = "malformed"
        /\ handlers[h].pc = "failed"
        /\ handlers[g].pc = "done"
        /\ handlers[g].response # <<>>

\* the read_site calls that failed in the fetch or in the decoding
FetchFailed ==
    {c \in 1..Len(siteCalls) :
        siteCalls[c].error \in {"network error", "decode error"}}

\* C12: a read_site call that fails in the fetch or in the decoding of the
\* body ends with that error and has made no upsert; the step in which it
\* fails leaves every collection, its count and the upserts made exactly as
\* they were.
C12_FetchFailureLeavesCollection ==
    /\ [](\A c \in FetchFailed :
            /\ siteCalls[c].pc = "failed"
            /\ siteCalls[c].stored = 0
            /\ IssuedBy(updates, c) = 0)
    /\ [][\A c \in 1..Len(siteCalls) :
            (siteCalls[c].pc = "get" /\ siteCalls'[c].pc = "failed"
             /\ siteCalls'[c].error \in {"network error", "decode error"}) =>
                /\ collections' = collections
                /\ updates' = updates
                /\ \A i \in 1..Len(collections) :
                      Count(collections'[i]) = Count(collections[i])]_vars

\* C12 witness: a call failed in the decoding after another call had stored
\* the two chunks of its page, which the collection still holds
C12_Witness ==
    \E c, d \in 1..Len(siteCalls) :
        /\ siteCalls[c].error = "decode error"
        /\ siteCalls[d].pc = "done"
        /\ Len(siteCalls[d].chunks) = 2
        /\ Count(collections[1]) = 2

\* what response_text = oapi_choice1_text(await the completion call) gives
\* for what the call ends with: the error raised, or the text returned
DirectAwait(payload) ==
    IF payload.raised THEN [raises |-> "unreachable", text |-> <<>>]
    ELSE IF Len(payload.choices) = 0 THEN [raises |-> "malformed", text |-> <<>>]
    ELSE [raises |-> "none", text |-> Head(payload.choices)]

\* what send_llm_msg gave handler h: the error it raised, or the text it returned
SendLlmMsgOutcome(h) ==
    [raises |-> IF handlers[h].error = "edit" THEN "none" ELSE handlers[h].error,
     text |-> handlers[h].response]

\* C13: send_llm_msg behaves as the direct await of its one completion call:
\* the handler is in the wait exactly while its one request is out and the
\* task has not ended; once the task has ended, send_llm_msg has raised the
\* task's error or returned the text of the first choice of the task's
\* payload; the handler never has a second request, and a request that is
\* never answered is never given up.
C13_WaitOnOneTaskIsDirectAwait ==
    \A h \in Handlers :
        /\ IssuedBy(llmCalls, h) <= 1
        /\ handlers[h].pc = "llm" <=>
              (IssuedBy(llmCalls, h) = 1 /\ handlers[h].result = <<>>)
        /\ handlers[h].result # <<>> =>
              /\ Len(handlers[h].result) = 1
              /\ SendLlmMsgOutcome(h) = DirectAwait(handlers[h].result[1])
              /\ (\E i \in 1..Len(handlers[h].trace) :
                      handlers[h].trace[i] = "response") <=>
                    DirectAwait(handlers[h].result[1]).raises = "none"
        /\ handlers[h].hung => handlers[h].pc = "llm"

\* C13 witness: a task ended with a payload of two choices and its handler
\* got the text of the first, while another task ended with an exception
C13_Witness ==
    \E h, g \in Handlers :
        /\ handlers[h].result # <<>>
        /\ Len(handlers[h].result[1].choices) = 2
        /\ handlers[h].response = handlers[h].result[1].choices[1]
        /\ handlers[h].response # handlers[h].result[1].choices[2]
        /\ handlers[g].result # <<>>
        /\ handlers[g].result[1].raised
        /\ handlers[g].error = "unreachable"

\* the positions of content where the exact mention token starts
TokenAt(content) ==
    {i \in 1..Len(content) :
        /\ i + Len(mention_str) - 1 <= Len(content)
        /\ \A j \in 1..Len(mention_str) : content[i + j - 1] = mention_str[j]}

\* content without the token that starts at position i
WithoutTokenAt(content, i) ==
    [j \in 1..(Len(content) - Len(mention_str)) |->
        IF j < i THEN content[j] ELSE content[j + Len(mention_str)]]

\* the handlers that have computed their cleaned text
Cleaned == {h \in Handlers : handlers[h].trace # <<>>}

\* C14: the cleaned text of a handled message is its content without the
\* first occurrence of the mention token, everything else in place, later
\* occurrences included; a content without the exact token (the id alone, or
\* another form of mention) is kept as it is; and the cleaned text is the
\* instruction of the prompt sent to the LLM.
C14_OnlyFirstTokenRemoved ==
    \A h \in Cleaned :
        LET content == handlers[h].content
            first == {i \in TokenAt(content) : \A k \in TokenAt(content) : i <= k}
        IN  /\ TokenAt(content) = {} => handlers[h].clean_msg = content
            /\ \A i \in first : handlers[h].clean_msg = WithoutTokenAt(content, i)
            /\ Cardinality(TokenAt(handlers[h].clean_msg)) >=
                  Cardinality(TokenAt(content)) - 1
            /\ \A call \in llmCalls :
                  call.by = h => call.prompt.instruction = handlers[h].clean_msg

\* C14 witness: a content with the token on both sides of a word was
\* cleaned to the word and the second token, and sent to the LLM
C14_Witness ==
    \E h \in Cleaned :
        /\ handlers[h].content = mention_str \o Hi \o mention_str
        /\ handlers[h].clean_msg = Hi \o mention_str
        /\ \E call \in llmCalls : call.by = h /\ call.prompt.instruction = Hi \o mention_str

\* a step of some on_message execution: an event delivered, or a handler
\* resumed
OnMessageStep ==
    \/ delivered' # delivered
    \/ handlers' # handlers
    \/ channel' # channel
    \/ llmCalls' # llmCalls
    \/ edits' # edits

\* a step of the startup: on_ready, or the ingestion it starts
StartupStep ==
    \/ readyLog' # readyLog
    \/ siteCalls' # siteCalls

\* the endpoint has answered handler h and the text is in the channel
Answered(h) ==
    IF h \in Handlers
    THEN handlers[h].pc = "done" /\ handlers[h].result # <<>>
    ELSE FALSE

\* C15: no step of an on_message execution, ignored or handled, successful
\* or failed, changes the embedding model handle, the LLM parameters, the
\* collections or what was upserted; those change in startup steps only; and
\* what a handler sends and shows is a function of its message's content and
\* of the endpoint's response alone: the request holds the prompt of that
\* content and the parameters the client was built with, and the text in
\* the channel is the cut first choice of the response.
C15_HandlingWritesNoSharedState ==
    /\ [][OnMessageStep =>
              /\ embedding_model' = embedding_model
              /\ llm' = llm
              /\ collections' = collections
              /\ updates' = updates
              /\ ~StartupStep]_vars
    /\ [][(embedding_model' # embedding_model \/ collections' # collections
            \/ updates' # updates) => StartupStep]_vars
    /\ [](llm.params = [llmtemp |-> "LLM_TEMP", max_tokens |-> MAX_TOKENS])
    /\ [](\A call \in llmCalls :
             /\ call.params = [llmtemp |-> "LLM_TEMP", max_tokens |-> MAX_TOKENS]
             /\ call.prompt = context_build(clean_msg(handlers[call.by].content)))
    /\ [](\A h \in 1..MaxEvents :
             Answered(h) =>
                \E m \in channel :
                    /\ m.id = handlers[h].return_msg
                    /\ m.content =
                          EditContent(oapi_choice1_text(handlers[h].result[1])))
    /\ [](\A h, g \in 1..MaxEvents :
             (Answered(h) /\ Answered(g)
              /\ handlers[h].content = handlers[g].content
              /\ handlers[h].result = handlers[g].result) =>
                /\ handlers[h].clean_msg = handlers[g].clean_msg
                /\ handlers[h].response = handlers[g].response
                /\ \A m, n \in channel :
                      (m.id = handlers[h].return_msg /\ n.id = handlers[g].return_msg)
                          => m.content = n.content)

\* C15 witness: startup has run, and of two messages of the same content,
\* handled one after the other, one was answered and one failed
C15_Witness ==
    /\ Len(readyLog) = 1
    /\ embedding_model = DOC_EMBEDDINGS_LLM
    /\ \E h, g \in Handlers :
          /\ handlers[h].content = handlers[g].content
          /\ handlers[h].pc = "done"
          /\ handlers[g].pc = "failed"
          /\ handlers[g].error = "unreachable"

\* the edits issued on message id
EditsOf(id) == {e \in edits : e.target = id}

\* C16: whatever the interleaving of the handlers, a placeholder is the
\* target of at most one edit; an edit targets the placeholder its own
\* handler sent and holds the cut first choice of the response to that
\* handler's own request; a message in the channel shows the throbber or the
\* content of the one edit issued on it; and there are never more edits than
\* completion requests, nor more requests than placeholders.
C16_HandlersDoNotCross ==
    /\ \A m \in channel :
          /\ Cardinality(EditsOf(m.id)) <= 1
          /\ m.content # THROBBER =>
                \E e \in EditsOf(m.id) : m.content = e.content
    /\ \A e \in edits :
          /\ e.target = handlers[e.by].return_msg
          /\ e.target \in {m.id : m \in SentBy(e.by)}
          /\ handlers[e.by].result # <<>>
          /\ e.content = EditContent(oapi_choice1_text(handlers[e.by].result[1]))
          /\ \E call \in llmCalls :
                /\ call.by = e.by
                /\ call.prompt = context_build(handlers[e.by].clean_msg)
    /\ Cardinality(edits) <= Cardinality(llmCalls)
    /\ Cardinality(llmCalls) <= Cardinality(channel)

\* C16 witness: the later handler has been answered and has edited its
\* placeholder while the earlier one, answered with another text, has not
\* yet applied its edit
C16_Witness ==
    /\ Len(handlers) = 2
    /\ handlers[1].pc = "edit"
    /\ handlers[2].pc = "done"
    /\ EditContent(handlers[1].response) # EditContent(handlers[2].response)
    /\ \E m, n \in channel :
          /\ m.id = handlers[1].return_msg /\ m.content = THROBBER
          /\ n.id = handlers[2].return_msg
          /\ n.content = EditContent(handlers[2].response)
          /\ n.content # THROBBER

====
